---- MODULE Spec2Model ----
(***************************************************************************)
(* Lifecycle of the two process-wide resources of                          *)
(* lessons/231/python-app/db.py: the asyncpg connection pool behind the    *)
(* global `db` and the aiomcache client behind the global `memcached`,     *)
(* the lifespan() context manager that creates and closes them, and the    *)
(* per-request dependencies get_db() and get_cache_client().               *)
(*                                                                         *)
(* The program runs on one asyncio event loop, so the code between two     *)
(* suspension points is one atomic step.  lifespan() suspends in           *)
(* asyncpg.create_pool (line 34), at its yield (line 126) and in           *)
(* db.close() (line 133); MemcachedClient.initialize (lines 80-90) holds   *)
(* no await and memcached.close() finds nothing to wait for, so they are   *)
(* part of the step that reaches them.                                     *)
(*                                                                         *)
(* Request tasks are anonymous: a request is visible through the           *)
(* connection its get_db scope holds, through its place among the tasks    *)
(* suspended in acquire, or through the cache handle it was given.         *)
(* asyncpg and aiomcache are called, not defined, by db.py; they are       *)
(* modelled by what the called method does (asyncpg.Pool: a queue of       *)
(* max_size connection holders, acquire() suspends on the empty queue      *)
(* and raises InterfaceError on a closing or closed pool, close() waits    *)
(* for every connection to be released and returns at once on a closed     *)
(* pool or terminates the pool and re-raises when it is interrupted, a     *)
(* holder drops a connection that comes back closed and connects anew at   *)
(* its next acquire;                                                       *)
(* aiomcache.Client.close() empties the client's pool and may be           *)
(* repeated).  Requests may arrive in every state of lifespan(); the       *)
(* application is started again only once the requests of the earlier run  *)
(* have ended.                                                             *)
(***************************************************************************)
EXTENDS Integers, FiniteSets

\* min_size passed to asyncpg.create_pool
MIN_SIZE == 10

\* how many times lifespan() is entered in one process
MaxRuns == 2

\* how many request tasks may be suspended in acquire at once
MaxWaiting == 2

\* how many requests may hold the cache client handle at once
MaxCacheUsers == 1

\* the connections whose server may go away during a lease.  What the pool
\* does with a connection depends on no other connection and the
\* connections are interchangeable, so one is followed
FragileConns == {1}

\* values of int(os.environ["POSTGRES_POOL_SIZE"]), line 17, that are tried:
\* one that is not positive, the largest below min_size, and the smallest
\* that asyncpg accepts beside min_size
PoolSizes == {0, MIN_SIZE - 1, MIN_SIZE}

\* names for the connections of the largest pool
ConnIds == 1..MIN_SIZE

VARIABLES
    POSTGRES_POOL_SIZE, \* the configured max_size
    pc,                 \* where lifespan() is: "idle" (not running), "creating", "ready", "closing_db"
    run,                \* lifespan() invocations so far
    db,                 \* the global db: 0 = name not bound, n = the n-th pool created
    poolState,          \* of the pool behind db: "none", "open", "closing", "closed"
    memcached,          \* the global memcached: 0 = name not bound, n = the n-th client created
    mcState,            \* of the client behind memcached: "none", "open", "closed"
    idle,               \* connections in the pool's queue
    holders,            \* holders[c]: get_db scopes that currently hold connection c
    waiting,            \* request tasks suspended in acquire
    broken,             \* holders that went back to the pool with a connection that is closed
    dropped,            \* holders in the queue that have no connection: the next acquire connects anew
    cacheUsers,         \* cacheUsers[k]: get_cache_client scopes that hold client k
    cause,              \* the construction error of this run of lifespan(), "none" if none
    pending,            \* the exception in flight while lifespan() is in its finally block
    raised,             \* the exception with which the last run of lifespan() ended
    outcome,            \* how the finally block of this run was entered: "none", "startup_failed", "shutdown"
    mcOps,              \* what lifespan() asked of the cache in this run: subset of {"init", "close"}
    reclose,            \* what the last finally block closed although it was closed already: "none", "db", "mc", "both"
    last                \* the step just taken if it was a request's: what, where lifespan() was, what the caller got, the connection handed out, how the handler had ended

vars == <<POSTGRES_POOL_SIZE, pc, run, db, poolState, memcached, mcState, idle,
          holders, waiting, broken, dropped, cacheUsers, cause, pending, raised, outcome,
          mcOps, reclose, last>>

lifeVars == <<pc, run, db, poolState, memcached, mcState, cause, pending, raised,
              outcome, mcOps, reclose>>

Conns == 1..POSTGRES_POOL_SIZE

\* f[1] + ... + f[n]
RECURSIVE SumTo(_, _)
SumTo(f, n) == IF n = 0 THEN 0 ELSE f[n] + SumTo(f, n - 1)

\* get_db scopes that hold a connection
TotalHolders == SumTo(holders, MIN_SIZE)

\* get_cache_client scopes that hold a client handle
TotalCacheUsers == SumTo(cacheUsers, MaxRuns)

NoCall ==
    [op |-> "none", at |-> "idle", result |-> "none", given |-> "none", how |-> "none"]

Init ==
    /\ POSTGRES_POOL_SIZE \in PoolSizes
    /\ pc = "idle"
    /\ run = 0
    /\ db = 0
    /\ poolState = "none"
    /\ memcached = 0
    /\ mcState = "none"
    /\ idle = {}
    /\ holders = [c \in ConnIds |-> 0]
    /\ waiting = 0
    /\ broken = {}
    /\ dropped = {}
    /\ cacheUsers = [k \in 1..MaxRuns |-> 0]
    /\ cause = "none"
    /\ pending = "none"
    /\ raised = "none"
    /\ outcome = "none"
    /\ mcOps = {}
    /\ reclose = "none"
    /\ last = NoCall

(***************************************************************************)
(* Startup: lifespan() lines 118-129, Database.from_postgres, lines 31-48, *)
(* MemcachedClient.initialize, lines 80-90.                                *)
(***************************************************************************)

\* ConfigValid as a check of max_size alone
ConfigValidMaxOnly == POSTGRES_POOL_SIZE > 0

\* asyncpg.Pool.__init__ accepts the sizes create_pool is given (line 34-39)
ConfigValid == POSTGRES_POOL_SIZE > 0 /\ MIN_SIZE <= POSTGRES_POOL_SIZE

\* what create_pool can fail with once the sizes were accepted
BackendErrors == {"PostgresError", "OSError"}

\* the exception from_postgres raises when create_pool raised `kind`
FromPostgresRaises(kind) ==
    IF kind = "PostgresError" THEN "ValueError" ELSE kind

\* the exception MemcachedClient.initialize raises when aiomcache.Client raised
InitializeRaises(kind) == "ValueError"

\* CloseClosedPool as a close that refuses a closed pool
CloseClosedPoolRaises == "InterfaceError"

\* Database.close on a pool that is closed already: what the call does
CloseClosedPool == "returns"

\* MemcachedClient.close on a client that is closed already: what the call does
CloseClosedClient == "returns"

\* `await memcached.close()` and the end of lifespan(), lines 134-135:
\* `exc` is the exception in flight ("none" when the block was entered from
\* the yield), m and ms the global memcached and its client's state, dbAgain
\* whether db.close() has just run on a closed pool
MemcachedClose(exc, how, m, ms, ops, dbAgain) ==
    /\ pc' = "idle"
    /\ pending' = "none"
    /\ outcome' = how
    /\ mcOps' = (IF m = 0 THEN ops ELSE ops \cup {"close"})
    /\ IF m = 0
       THEN \* line 134 reads a global that was never assigned
            /\ raised' = "NameError"
            /\ mcState' = ms
            /\ reclose' = (IF dbAgain THEN "db" ELSE "none")
       ELSE IF ms = "closed"
       THEN /\ raised' = (IF CloseClosedClient = "returns" THEN exc ELSE CloseClosedClient)
            /\ mcState' = ms
            /\ reclose' = (IF dbAgain THEN "both" ELSE "mc")
       ELSE /\ raised' = exc
            /\ mcState' = "closed"
            /\ reclose' = (IF dbAgain THEN "db" ELSE "none")

\* the finally block, lines 130-135, up to its first suspension: d and ps
\* are the global db and its pool's state as the block is entered
Finally(exc, how, d, ps, m, ms, ops) ==
    IF d = 0
    THEN \* line 133 reads a global that was never assigned
         /\ raised' = "NameError"
         /\ pc' = "idle" /\ pending' = "none" /\ outcome' = how
         /\ poolState' = ps /\ mcState' = ms
         /\ mcOps' = ops
         /\ reclose' = "none"
    ELSE IF ps = "closed"
    THEN \* Pool.close() on a closed pool
         /\ poolState' = ps
         /\ IF CloseClosedPool = "returns"
            THEN MemcachedClose(exc, how, m, ms, ops, TRUE)
            ELSE /\ raised' = CloseClosedPool
                 /\ pc' = "idle" /\ pending' = "none" /\ outcome' = how
                 /\ mcState' = ms
                 /\ mcOps' = ops
                 /\ reclose' = "db"
    ELSE \* Pool.close() marks the pool closing and waits for its connections
         /\ poolState' = "closing"
         /\ pc' = "closing_db" /\ pending' = exc /\ outcome' = how
         /\ mcState' = ms
         /\ mcOps' = ops
         /\ UNCHANGED <<raised, reclose>>

\* no request of an earlier run is still in flight
Quiescent == TotalHolders = 0 /\ waiting = 0 /\ TotalCacheUsers = 0

reqVars == <<idle, holders, waiting, broken, dropped, cacheUsers>>

\* lifespan() is entered, lines 116-121; create_pool rejects the sizes at
\* once or starts connecting
LifespanStart ==
    /\ pc = "idle"
    /\ run < MaxRuns
    /\ Quiescent
    /\ run' = run + 1
    /\ last' = NoCall
    /\ UNCHANGED <<POSTGRES_POOL_SIZE, db, memcached, reqVars>>
    /\ IF ConfigValid
       THEN /\ pc' = "creating"
            /\ cause' = "none"
            /\ outcome' = "none"
            /\ mcOps' = {}
            /\ raised' = "none"
            /\ reclose' = "none"
            /\ UNCHANGED <<poolState, mcState, pending>>
       ELSE /\ cause' = "ValueError"
            /\ Finally(FromPostgresRaises("ValueError"), "startup_failed",
                       db, poolState, memcached, mcState, {})

\* CreatePoolFail as a lifespan() that builds the cache client before the pool
CreatePoolFailCacheFirst(kind) ==
    /\ pc = "creating"
    /\ cause' = kind
    /\ memcached' = memcached + 1
    /\ last' = NoCall
    /\ UNCHANGED <<POSTGRES_POOL_SIZE, run, db, reqVars>>
    /\ Finally(FromPostgresRaises(kind), "startup_failed",
               db, poolState, memcached + 1, "open", mcOps \cup {"init"})

\* create_pool fails with `kind`, lines 43-48, then lines 127-135
CreatePoolFail(kind) ==
    /\ pc = "creating"
    /\ cause' = kind
    /\ last' = NoCall
    /\ UNCHANGED <<POSTGRES_POOL_SIZE, run, db, memcached, reqVars>>
    /\ Finally(FromPostgresRaises(kind), "startup_failed",
               db, poolState, memcached, mcState, mcOps)

\* create_pool returns a pool, lines 34-42 and 121; aiomcache.Client is
\* built, lines 83-87 and 124; lifespan() yields, line 126
StartupOk ==
    /\ pc = "creating"
    /\ db' = db + 1
    /\ poolState' = "open"
    /\ idle' = Conns
    /\ holders' = [c \in ConnIds |-> 0]
    /\ broken' = {}
    /\ dropped' = {}
    /\ memcached' = memcached + 1
    /\ mcState' = "open"
    /\ mcOps' = mcOps \cup {"init"}
    /\ pc' = "ready"
    /\ last' = NoCall
    /\ UNCHANGED <<POSTGRES_POOL_SIZE, run, waiting, cacheUsers, cause, pending,
                   raised, outcome, reclose>>

\* MemcachedInitFail as a lifespan() whose `except` is its last clause:
\* the error is logged and re-raised and nothing is closed
MemcachedInitFailNoClose ==
    /\ pc = "creating"
    /\ db' = db + 1
    /\ poolState' = "open"
    /\ idle' = Conns
    /\ holders' = [c \in ConnIds |-> 0]
    /\ broken' = {}
    /\ dropped' = {}
    /\ cause' = "ClientError"
    /\ last' = NoCall
    /\ pc' = "idle"
    /\ pending' = "none"
    /\ outcome' = "startup_failed"
    /\ raised' = InitializeRaises("ClientError")
    /\ mcOps' = mcOps \cup {"init"}
    /\ reclose' = "none"
    /\ UNCHANGED <<POSTGRES_POOL_SIZE, run, memcached, mcState, waiting, cacheUsers>>

\* create_pool returns a pool and aiomcache.Client raises, lines 88-90,
\* then lines 127-135 with the new pool behind db
MemcachedInitFail ==
    /\ pc = "creating"
    /\ db' = db + 1
    /\ idle' = Conns
    /\ holders' = [c \in ConnIds |-> 0]
    /\ broken' = {}
    /\ dropped' = {}
    /\ cause' = "ClientError"
    /\ last' = NoCall
    /\ UNCHANGED <<POSTGRES_POOL_SIZE, run, memcached, waiting, cacheUsers>>
    /\ Finally(InitializeRaises("ClientError"), "startup_failed",
               db + 1, "open", memcached, mcState, mcOps \cup {"init"})

\* the serving layer resumes lifespan() after its yield: lines 130-133
Shutdown ==
    /\ pc = "ready"
    /\ last' = NoCall
    /\ UNCHANGED <<POSTGRES_POOL_SIZE, run, db, memcached, cause, reqVars>>
    /\ Finally("none", "shutdown", db, poolState, memcached, mcState, mcOps)

\* every connection is back: Pool.close() closes them, which leaves every
\* holder without connection, and returns, line 133,
\* then lines 134-135
DbCloseDone ==
    /\ pc = "closing_db"
    /\ idle = Conns
    /\ poolState' = "closed"
    /\ dropped' = Conns
    /\ last' = NoCall
    /\ UNCHANGED <<POSTGRES_POOL_SIZE, run, db, memcached, cause, idle, holders,
                   waiting, broken, cacheUsers>>
    /\ MemcachedClose(pending, outcome, memcached, mcState, mcOps, FALSE)

\* Pool.close() is interrupted (an error closing a connection, or the task
\* is cancelled): it terminates the pool, which takes every connection from
\* the scope that holds it, and re-raises; line 134 is never reached
DbCloseFail ==
    /\ pc = "closing_db"
    /\ poolState' = "closed"
    /\ idle' = Conns
    /\ holders' = [c \in ConnIds |-> 0]
    /\ broken' = {}
    /\ dropped' = Conns
    /\ last' = NoCall
    /\ raised' = "CloseError"
    /\ pc' = "idle"
    /\ pending' = "none"
    /\ reclose' = "none"
    /\ UNCHANGED <<POSTGRES_POOL_SIZE, run, db, memcached, mcState, cause, outcome,
                   mcOps, waiting, cacheUsers>>

(***************************************************************************)
(* Requests: get_db, lines 67-69, over Database.get_connection, lines      *)
(* 50-56, and get_cache_client, lines 106-112, over get_client, 98-100.    *)
(***************************************************************************)

\* AcquireRaises as an acquire that does not look at the state of the pool
AcquireRaisesUnboundOnly == IF db = 0 THEN "NameError" ELSE "none"

\* what get_db raises before a connection is asked of the queue: the global
\* db read at line 68, then Pool.acquire's check of the pool at line 53
AcquireRaises ==
    IF db = 0 THEN "NameError"
    ELSE IF poolState \in {"closing", "closed"} THEN "InterfaceError"
    ELSE "none"

\* Available as a pool that hands out a connection in use when its queue is
\* empty instead of suspending the caller
AvailableNeverEmpty == IF idle = {} THEN Conns ELSE idle

\* the connections Pool.acquire can hand out now, line 53
Available == idle

\* QueueAfterGet as a queue that keeps the connection it hands out
QueueKeepsConn(c) == idle

\* the pool's queue once Pool.acquire has handed out c, line 53
QueueAfterGet(c) == idle \ {c}

\* ReleasedOn as a release written after the yield with no `async with`
ReleasedOnReturnOnly(how) == how = "return"

\* whether leaving the `async with` of line 53 by `how` releases the connection
ReleasedOn(how) == how \in {"return", "error", "cancel"}

\* DroppedOnRelease as a pool that keeps whatever connection comes back
KeptOnRelease(lost) == FALSE

\* whether the pool drops the connection that is released, line 53; `lost`
\* says that it was closed under the scope that held it (its server went
\* away): a closed connection is not kept, the next acquire connects anew
DroppedOnRelease(lost) == lost

\* the connection Pool.acquire hands out with holder c: the closed one (B
\* the closed connections), one made for this acquire because the holder
\* had none (D the holders without connection), or the one the holder kept
Given(c, B, D) ==
    IF c \in B THEN "broken" ELSE IF c \in D THEN "fresh" ELSE "pooled"

\* the connection leaves its scope, lines 55-56: its holder goes to a task
\* suspended in acquire if there is one, to the queue otherwise
Release(c, lost) ==
    /\ broken' = (IF lost /\ ~DroppedOnRelease(lost) THEN broken \cup {c}
                  ELSE broken)
    /\ IF waiting > 0
       THEN /\ waiting' = waiting - 1
            /\ UNCHANGED <<idle, holders, dropped>>
       ELSE /\ idle' = idle \cup {c}
            /\ holders' = [holders EXCEPT ![c] = @ - 1]
            /\ dropped' = (IF DroppedOnRelease(lost) THEN dropped \cup {c}
                           ELSE dropped)
            /\ UNCHANGED waiting

\* a request enters get_db: line 68, then line 53
GetDbCall ==
    /\ IF AcquireRaises # "none"
       THEN /\ last' = [op |-> "get_db", at |-> pc, result |-> AcquireRaises,
                         given |-> "none", how |-> "none"]
            /\ UNCHANGED <<idle, holders, waiting, dropped>>
       ELSE IF Available # {}
       THEN \E c \in Available :
               /\ idle' = QueueAfterGet(c)
               /\ holders' = [holders EXCEPT ![c] = @ + 1]
               /\ last' = [op |-> "get_db", at |-> pc, result |-> "connection",
                            given |-> Given(c, broken, dropped),
                            how |-> "none"]
               /\ dropped' = dropped \ {c}
               /\ UNCHANGED waiting
       ELSE /\ waiting < MaxWaiting
            /\ waiting' = waiting + 1
            /\ last' = [op |-> "get_db", at |-> pc, result |-> "suspended",
                         given |-> "none", how |-> "none"]
            /\ UNCHANGED <<idle, holders, dropped>>
    /\ UNCHANGED <<POSTGRES_POOL_SIZE, lifeVars, broken, cacheUsers>>

\* the handler of a request that holds c ends by `how` and the scopes of
\* lines 68-69 and 53-56 are left; `lost` says that the connection was
\* closed while the handler held it
ScopeExit(c, how, lost) ==
    /\ holders[c] > 0
    /\ lost => c \in FragileConns
    /\ IF ReleasedOn(how)
       THEN Release(c, lost)
       ELSE /\ holders' = [holders EXCEPT ![c] = @ - 1]
            /\ UNCHANGED <<idle, waiting, broken, dropped>>
    /\ last' = [op |-> "db_exit", at |-> pc, result |-> how,
                 given |-> IF waiting' < waiting
                           THEN Given(c, broken', IF DroppedOnRelease(lost)
                                                  THEN {c} ELSE {})
                           ELSE "none",
                 how |-> how]
    /\ UNCHANGED <<POSTGRES_POOL_SIZE, lifeVars, cacheUsers>>

\* WaiterCancel as a cancellation that leaves the task among the waiters of
\* the pool, where a later release hands it a connection nobody returns
WaiterCancelStaysRegistered ==
    /\ waiting > 0
    /\ last' = [op |-> "acquire_cancel", at |-> pc, result |-> "CancelledError",
                 given |-> "none", how |-> "none"]
    /\ UNCHANGED <<POSTGRES_POOL_SIZE, lifeVars, idle, holders, waiting, broken,
                   dropped, cacheUsers>>

\* a task suspended in acquire is cancelled
WaiterCancel ==
    /\ waiting > 0
    /\ waiting' = waiting - 1
    /\ last' = [op |-> "acquire_cancel", at |-> pc, result |-> "CancelledError",
                 given |-> "none", how |-> "none"]
    /\ UNCHANGED <<POSTGRES_POOL_SIZE, lifeVars, idle, holders, broken, dropped,
                   cacheUsers>>

\* what get_cache_client raises at line 108
GetClientRaises == IF memcached = 0 THEN "NameError" ELSE "none"

\* CacheExitResult as an `except` clause that ends in `pass`
CacheExitSwallows(how) ==
    IF how = "ClientException" THEN "return" ELSE how

\* what the request layer sees when the handler raised `how` inside the
\* scope of get_cache_client, lines 109-112
CacheExitResult(how) ==
    IF how = "ClientException" THEN "HTTP503" ELSE how

\* a request enters get_cache_client, lines 108-110
GetCacheCall ==
    /\ IF GetClientRaises # "none"
       THEN /\ last' = [op |-> "get_cache", at |-> pc, result |-> GetClientRaises,
                         given |-> "none", how |-> "none"]
            /\ UNCHANGED cacheUsers
       ELSE /\ TotalCacheUsers < MaxCacheUsers
            /\ cacheUsers' = [cacheUsers EXCEPT ![memcached] = @ + 1]
            /\ last' = [op |-> "get_cache", at |-> pc, result |-> "client",
                         given |-> "none", how |-> "none"]
    /\ UNCHANGED <<POSTGRES_POOL_SIZE, lifeVars, idle, holders, waiting, broken,
                   dropped>>

\* CacheScopeExit as a get_cache_client that closes the client it yielded
\* when its scope is left
CacheScopeExitCloses(k, how) ==
    /\ cacheUsers[k] > 0
    /\ cacheUsers' = [cacheUsers EXCEPT ![k] = @ - 1]
    /\ mcState' = (IF k = memcached THEN "closed" ELSE mcState)
    /\ last' = [op |-> "cache_exit", at |-> pc, result |-> CacheExitResult(how),
                 given |-> "none", how |-> how]
    /\ UNCHANGED <<POSTGRES_POOL_SIZE, pc, run, db, poolState, memcached, cause,
                   pending, raised, outcome, mcOps, reclose, idle, holders,
                   waiting, broken, dropped>>

\* the handler of a request that holds client k ends by `how`, lines 110-112
CacheScopeExit(k, how) ==
    /\ cacheUsers[k] > 0
    /\ cacheUsers' = [cacheUsers EXCEPT ![k] = @ - 1]
    /\ last' = [op |-> "cache_exit", at |-> pc, result |-> CacheExitResult(how),
                 given |-> "none", how |-> how]
    /\ UNCHANGED <<POSTGRES_POOL_SIZE, lifeVars, idle, holders, waiting, broken,
                   dropped>>

ExitKinds == {"return", "error", "cancel"}

CacheExitKinds == {"return", "ClientException", "error"}

Next ==
    \/ LifespanStart
    \/ \E kind \in BackendErrors : CreatePoolFail(kind)
    \/ StartupOk
    \/ MemcachedInitFail
    \/ Shutdown
    \/ DbCloseDone
    \/ DbCloseFail
    \/ GetDbCall
    \/ \E c \in ConnIds, how \in ExitKinds, lost \in BOOLEAN :
          ScopeExit(c, how, lost)
    \/ WaiterCancel
    \/ GetCacheCall
    \/ \E k \in 1..MaxRuns, how \in CacheExitKinds : CacheScopeExit(k, how)

Spec == Init /\ [][Next]_vars

(***************************************************************************)
(* Properties                                                              *)
(***************************************************************************)

\* C1: at most POSTGRES_POOL_SIZE get_db scopes hold a connection; a task
\* is suspended in acquire on the open pool only while all of them are held,
\* and a get_db call made in the ready state ends with a connection or
\* suspended, never with an error
C1_AtMostPoolSizeHold ==
    /\ TotalHolders <= POSTGRES_POOL_SIZE
    /\ (poolState = "open" /\ waiting > 0) => TotalHolders = POSTGRES_POOL_SIZE
    /\ (last.op = "get_db" /\ last.at = "ready")
          => last.result \in {"connection", "suspended"}

\* C1 witness: the pool is exhausted and a further request waits
C1_Witness ==
    /\ poolState = "open"
    /\ TotalHolders = POSTGRES_POOL_SIZE
    /\ waiting > 0
    /\ last.op = "get_db" /\ last.at = "ready" /\ last.result = "suspended"

\* C2: every connection of the pool is either in the queue and held by no
\* scope, or out of the queue and held by exactly one scope
C2_ExclusiveOwnership ==
    db # 0 => \A c \in Conns :
                 \/ c \in idle /\ holders[c] = 0
                 \/ c \notin idle /\ holders[c] = 1

\* C2 witness: with every connection held and tasks suspended in acquire,
\* a scope was left and its connection went to one of them
C2_Witness ==
    /\ poolState = "open"
    /\ last.op = "db_exit"
    /\ TotalHolders = POSTGRES_POOL_SIZE
    /\ idle = {}
    /\ waiting > 0

\* C3: a connection that is out of the queue is held by a scope that has
\* not exited; once every scope has exited, by return, error or
\* cancellation, all the connections are back and none is leased
C3_ReleasedOnEveryExit ==
    db # 0 =>
       /\ \A c \in Conns : c \notin idle => holders[c] >= 1
       /\ TotalHolders = 0 => idle = Conns

\* C3 witness: the last scope was left by cancellation and nothing is leased
C3_Witness ==
    /\ poolState = "open"
    /\ last.op = "db_exit" /\ last.at = "ready" /\ last.result = "cancel"
    /\ TotalHolders = 0
    /\ idle = Conns

\* what create_pool itself can raise
DbFailures == BackendErrors \cup {"ValueError"}

\* the exception in flight when the finally block is entered after the
\* construction error `cause`
ErrorInFlight ==
    IF cause = "ClientError" THEN InitializeRaises(cause) ELSE FromPostgresRaises(cause)

C5_Original ==
    (last.op = "get_cache" /\ last.at # "ready") => last.result # "client"

\* C6 (as claimed): in a run whose create_pool failed, lifespan() asks
\* nothing of the cache
C6_Original == cause \in DbFailures => mcOps = {}

\* C6 (amended): the cache client is built only after the pool, and in a
\* run whose create_pool failed it is not built; the one thing lifespan()
\* may still ask of the cache is close() on a client left by an earlier run
C6_CacheNotBuiltAfterDbFailure ==
    /\ cause \in DbFailures => mcOps \subseteq {"close"}
    /\ "close" \in mcOps => memcached # 0
    /\ "init" \in mcOps => (db # 0 /\ cause \notin DbFailures)

\* C6 witness: create_pool failed in a later run and the finally block
\* closed the client of the earlier run
C6_Witness ==
    /\ cause \in DbFailures
    /\ pc = "idle"
    /\ mcOps = {"close"}

\* C7 (as claimed): in a run whose construction failed lifespan() is never
\* at its yield and no request made during the run is given a connection or
\* a client handle
C7_Original ==
    cause # "none" =>
       /\ pc # "ready"
       /\ last.at \in {"creating", "closing_db"}
             => last.result \notin {"connection", "client"}

\* C8 (as claimed): a run that failed in construction ends with the
\* construction error itself
C8_Original ==
    (pc = "idle" /\ outcome = "startup_failed") => raised = cause

\* C9 (as claimed): after the finally block entered from the yield has
\* ended, the pool and the cache client are both closed
C9_Original ==
    (pc = "idle" /\ outcome = "shutdown")
       => (poolState = "closed" /\ mcState = "closed")

\* C10: Database.close and MemcachedClient.close called on a resource that
\* is closed already leave it closed and raise nothing: lifespan() ends
\* with the exception that was in flight before the calls
C10_SecondCloseIsNoop ==
    /\ reclose \in {"db", "both"} =>
          (poolState = "closed" /\ raised \in {ErrorInFlight, "NameError"})
    /\ reclose \in {"mc", "both"} =>
          (mcState = "closed" /\ raised = ErrorInFlight)
    /\ reclose = "both" => raised = ErrorInFlight

\* C10 witness: a finally block closed the closed pool and the closed client
C10_Witness ==
    /\ pc = "idle"
    /\ reclose = "both"
    /\ poolState = "closed"
    /\ mcState = "closed"

(***************************************************************************)
(* Progress.  The event loop resumes a task whose wait is over: once every *)
(* connection is back, Pool.close() at line 133 goes on.  Nothing makes a  *)
(* handler leave its scope, and nothing interrupts Pool.close(): line 60   *)
(* passes no timeout and wraps the call in none.                           *)
(***************************************************************************)

SpecFair == Spec /\ WF_vars(DbCloseDone)

\* C11 (as claimed): once the finally block has begun to close the pool,
\* lifespan() comes to its end, whatever the requests that hold a
\* connection do
C11_Original == (pc = "closing_db") ~> (pc = "idle")

\* C12 (as claimed): a task suspended in acquire on the exhausted pool does
\* not stay suspended: while the pool stays open its wait ends, even with
\* no connection released
C12_Original ==
    (poolState = "open" /\ waiting > 0) ~> (waiting = 0 \/ poolState # "open")

\* C13 (as claimed): once lifespan() has ended with the pool and the cache
\* client both closed, no request holds a connection and none is inside
\* the scope of get_cache_client
C13_Original ==
    (pc = "idle" /\ poolState = "closed" /\ mcState = "closed")
       => (TotalHolders = 0 /\ TotalCacheUsers = 0)

\* C14 (as claimed): whatever the number of times lifespan() has called
\* from_postgres, at most one pool has been created
C14_Original == db <= 1

C18_ErrorsSurface ==
    /\ last.op = "cache_exit" =>
          /\ last.how = "ClientException" => last.result = "HTTP503"
          /\ last.how = "error" => last.result = "error"
          /\ last.result = "return" => last.how = "return"
    /\ last.op = "db_exit" =>
          /\ last.result = last.how
          /\ last.result # "HTTP503"

\* C18 witness: a handler inside the scope of get_cache_client raised a
\* ClientException while lifespan() was at its yield and the request layer
\* got the 503
C18_Witness ==
    /\ last.op = "cache_exit"
    /\ last.at = "ready"
    /\ last.how = "ClientException"
    /\ last.result = "HTTP503"

\* C19: in a run where the pool was created and aiomcache.Client then
\* failed, the pool is never open to requests, and once lifespan() has
\* ended it is closed
C19_PoolClosedAfterCacheFailure ==
    cause = "ClientError" =>
       /\ poolState \in {"closing", "closed"}
       /\ pc = "idle" => poolState = "closed"

\* C19 witness: the cache client could not be built, db.close() waited for
\* nothing and lifespan() has ended with the new pool closed
C19_Witness ==
    /\ cause = "ClientError"
    /\ pc = "idle"
    /\ db = run
    /\ poolState = "closed"
    /\ idle = Conns

====
